---- MODULE Spec2Model ----
(***************************************************************************)
(* The pets CRUD router (src/src/routes/pets.ts) over the shared NeDB      *)
(* datastore that src/unnamed/part_000 constructs once and attaches to     *)
(* every request.  One action per store call of a handler: the handlers    *)
(* of GET /, GET /:id and POST / make one store call, the handlers of      *)
(* PUT /:id and DELETE /:id make two (findOne, then update / remove) and   *)
(* other requests may run between the two.                                 *)
(***************************************************************************)
EXTENDS Integers, FiniteSets, Sequences, TLC

VARIABLES store, proc, last, created, used, deletedOK, netReq, netOK, faulted

vars == <<store, proc, last, created, used, deletedOK, netReq, netOK, faulted>>

(* ---------------------------------------------------------------- bounds *)

\* Requests issued in one behaviour.
MaxReqs == 4

\* Concurrent request handlers (the event loop interleaves them at awaits).
Procs == {1, 2}

(* ------------------------------------------------------------ JSON values *)

\* A JSON value keeps its type: the string "1" and the number 1 differ.
JStr(s) == <<"string", s>>
JNum(s) == <<"number", s>>
Absent == <<"absent", "">>

\* String(v): the text a client puts in the URL path for a value.
ToPath(v) == v[2]

\* req.params.id is always a string, and '/:id' matches no empty segment.
PathIds == {"1", "2"}

Fields == {"_id", "name", "type"}

\* req.body after express.json(): a field map; Absent marks a missing field.
\* The body is not validated, so _id may be there, as a string or a number.
Body(id, name, type) == [_id |-> id, name |-> name, type |-> type]

\* Bodies of POST: complete, partial and empty, without and with an _id.
CreateBodies ==
    {Body(Absent, JStr("x"), JStr("dog")), Body(Absent, JStr("y"), Absent),
     Body(Absent, Absent, Absent),
     Body(JStr("1"), JStr("x"), JStr("dog")), Body(JNum("1"), JStr("x"), Absent)}

\* Field maps of PUT: empty, one field, both fields, and a map naming _id
\* (the own id of record "1", another id for record "2").
UpdateBodies ==
    {Body(Absent, Absent, Absent), Body(Absent, JStr("y"), Absent),
     Body(Absent, Absent, JStr("dog")), Body(Absent, JStr("x"), JStr("dog")),
     Body(JStr("1"), JStr("y"), Absent)}

NoDoc == [_id |-> Absent, name |-> Absent, type |-> Absent]

(* ------------------------------------------------------------- the store *)

\* Store faults: "pre" is raised before the in-memory collection is touched
\* (the datafile cannot be loaded), "post" after it was changed (the append
\* to the datafile fails: NeDB changes its cache first and persists second).
ReadFaults == {"none", "pre"}
WriteFaults == {"none", "pre", "post"}

FaultMessage(f) ==
    CASE f = "pre" -> "ENOENT: cannot load nedb.db"
      [] f = "post" -> "ENOSPC: cannot append to nedb.db"
      [] f = "unique" -> "Can't insert key, it violates the unique constraint"
      [] f = "idchange" -> "You cannot change a document's _id"
      [] OTHER -> ""

\* The documents a query {_id: v} matches (strict equality on the value).
Matching(S, v) == {d \in S : d._id = v}

\* findOne({_id: id}): the matching document, or null (NoDoc).
findOne(S, v) ==
    IF Matching(S, v) = {} THEN NoDoc ELSE CHOOSE d \in Matching(S, v) : TRUE

\* Ids the store may generate: any id string never stored before.
FreshIds == {JStr(s) : s \in PathIds} \ used

\* insert(doc): _id is generated only when the document carries none; a
\* duplicate _id violates the unique index.  Result: the error, the number
\* of documents to persist, the inserted document and the collection.
insert(S, doc, newId) ==
    LET prepared == IF doc._id = Absent THEN [doc EXCEPT !._id = newId] ELSE doc
    IN  IF Matching(S, prepared._id) # {}
        THEN [err |-> "unique", n |-> 0, doc |-> NoDoc, S |-> S]
        ELSE [err |-> "none", n |-> 1, doc |-> prepared, S |-> S \cup {prepared}]

\* The document replaced by the map (the update sent without $set).
modifyReplace(old, set) ==
    [f \in Fields |-> IF f = "_id" THEN old._id ELSE set[f]]

\* $set: overwrite the fields the map names, keep the others.
modify(old, set) ==
    [f \in Fields |-> IF set[f] # Absent THEN set[f] ELSE old[f]]

\* update({_id: v}, {$set: set}, {returnUpdatedDocs: true}): the updated
\* document, or undefined (NoDoc, n = 0) when nothing matched.
update(S, v, set) ==
    IF Matching(S, v) = {}
    THEN [err |-> "none", n |-> 0, doc |-> NoDoc, S |-> S]
    ELSE LET old == findOne(S, v)
             new == modify(old, set)
         IN  IF new._id # old._id
             THEN [err |-> "idchange", n |-> 0, doc |-> NoDoc, S |-> S]
             ELSE [err |-> "none", n |-> 1, doc |-> new,
                   S |-> (S \ {old}) \cup {new}]

\* A remove whose query matches nothing.
removeNone(S, v) == [err |-> "none", n |-> 0, S |-> S]

\* remove({_id: v}, {}): the number removed and the remaining documents.
remove(S, v) ==
    [err |-> "none", n |-> Cardinality(Matching(S, v)), S |-> S \ Matching(S, v)]

(* ------------------------------------------------------------- responses *)

StatusText(code) ==
    CASE code = 200 -> "OK"
      [] code = 404 -> "Not Found"
      [] OTHER -> ""

\* What a handler sends: status, kind of body, and the body.
Resp(status, kind, text, doc, count) ==
    [status |-> status, kind |-> kind, text |-> text, doc |-> doc, count |-> count]

\* res.status(code).end(): the status and no body.
sendStatusEmpty(code) == Resp(code, "empty", "", NoDoc, 0)

\* res.sendStatus(code): the status and its registered text as the body.
sendStatus(code) == Resp(code, "text", StatusText(code), NoDoc, 0)

\* res.status(code).send(value) with a document.
sendDoc(code, doc) == Resp(code, "json", "", doc, 0)

\* res.send(undefined): no body.
sendNothing(code) == Resp(code, "empty", "", NoDoc, 0)

\* res.send(pets): the array, kept by its length.
sendList(code, S) == Resp(code, "list", "", NoDoc, Cardinality(S))

\* catch (error): res.status(500).send(error.message).
sendError(f) == Resp(500, "text", FaultMessage(f), NoDoc, 0)

\* A rejection no handler catches: the handler sends nothing (status 0);
\* what the client then gets is the hosting framework's business.
Unhandled == Resp(0, "none", "", NoDoc, 0)

(* ---------------------------------------------- a store call that may fault *)

\* The outcome of a store write r = [err, n, S, ...] under fault f.  A load
\* fault precedes everything; the store's own errors (unique, idchange) come
\* next and change nothing; an append fault follows the in-memory change and
\* needs a document to append.
Outcome(f, S, r) ==
    IF f = "pre" THEN [r EXCEPT !.err = "pre", !.n = 0, !.S = S]
    ELSE IF r.err # "none" THEN r
    ELSE IF f = "post" /\ r.n > 0 THEN [r EXCEPT !.err = "post"]
    ELSE r

\* The outcome of a store read under fault f.
ReadErr(f) == IF f = "pre" THEN "pre" ELSE "none"

IsFault(e) == e \in {"pre", "post"}

(* ------------------------------------------------------------ the handlers *)

\* router.get('/'): no try/catch around find.
listResp(err, S) ==
    IF err # "none" THEN Unhandled ELSE sendList(200, S)

\* router.get('/:id'): no try/catch around findOne.
getResp(err, pet) ==
    IF err # "none" THEN Unhandled
    ELSE IF pet = NoDoc THEN sendStatus(404)
    ELSE sendDoc(200, pet)

\* router.post('/'): 201 with the inserted document, 500 with the message.
postResp(r) ==
    IF r.err # "none" THEN sendError(r.err) ELSE sendDoc(201, r.doc)

\* router.put('/:id') and router.delete('/:id') after findOne: the response
\* that ends the request there, or "go on" (status 0 is never sent here).
GoOn == Resp(0, "none", "go on", NoDoc, 0)

\* The lookup without its existence check.
lookupRespNoCheck(err, pet) ==
    IF err # "none" THEN sendError(err) ELSE GoOn

lookupResp(err, pet) ==
    IF err # "none" THEN sendError(err)
    ELSE IF pet = NoDoc THEN sendStatus(404)
    ELSE GoOn

\* router.put('/:id') after update: res.send(updatedPet).
putResp(r) ==
    IF r.err # "none" THEN sendError(r.err)
    ELSE IF r.doc = NoDoc THEN sendNothing(200)
    ELSE sendDoc(200, r.doc)

\* The delete handler without its try/catch, as the GET handlers are.
deleteRespNoCatch(r) ==
    IF r.err # "none" THEN Unhandled ELSE sendStatus(200)

\* The delete handler answering by the number removed.
deleteRespChecked(r) ==
    IF r.err # "none" THEN sendError(r.err)
    ELSE IF r.n = 0 THEN sendStatus(404)
    ELSE sendStatus(200)

\* router.delete('/:id') after remove: the number removed is not looked at.
deleteResp(r) ==
    IF r.err # "none" THEN sendError(r.err) ELSE sendStatus(200)

(* ------------------------------------------------------------------ state *)

Idle == [pc |-> "idle", id |-> "", body |-> NoDoc]

Active == {p \in Procs : proc[p].pc # "idle"}

\* A new request may arrive at an idle handler while the budget lasts.
CanStart(p) ==
    /\ proc[p].pc = "idle"
    /\ last.seq + Cardinality(Active) < MaxReqs

\* The record of the response just sent: the request and its path id, the
\* store call that ended it, the fault raised there, the number of documents
\* that call matched or inserted, and the response.
Event(op, call, id, fault, n, resp) ==
    [seq |-> last.seq + 1, op |-> op, call |-> call, id |-> id,
     fault |-> fault, n |-> n, resp |-> resp]

Init ==
    /\ store = {}
    /\ proc = [p \in Procs |-> Idle]
    /\ last = [seq |-> 0, op |-> "none", call |-> "none", id |-> "",
               fault |-> "none", n |-> 0, resp |-> Resp(0, "none", "", NoDoc, 0)]
    /\ created = {}
    /\ used = {}
    /\ deletedOK = {}
    /\ netReq = 0
    /\ netOK = 0
    /\ faulted = FALSE

(* ---------------------------------------------------------------- actions *)

\* GET /pets
List(p, f) ==
    /\ CanStart(p)
    /\ last' = Event("list", "find", "", ReadErr(f), Cardinality(store),
                     listResp(ReadErr(f), store))
    /\ faulted' = (faulted \/ IsFault(ReadErr(f)))
    /\ UNCHANGED <<store, proc, created, used, deletedOK, netReq, netOK>>

\* GET /pets/:id
GetById(p, id, f) ==
    /\ CanStart(p)
    /\ LET pet == findOne(store, JStr(id))
       IN  last' = Event("get", "findOne", id, ReadErr(f),
                         Cardinality(Matching(store, JStr(id))),
                         getResp(ReadErr(f), pet))
    /\ faulted' = (faulted \/ IsFault(ReadErr(f)))
    /\ UNCHANGED <<store, proc, created, used, deletedOK, netReq, netOK>>

\* POST /pets
Create(p, body, newId, f) ==
    /\ CanStart(p)
    /\ LET r == Outcome(f, store, insert(store, body, newId))
           resp == postResp(r)
       IN  /\ store' = r.S
           /\ last' = Event("create", "insert", "", r.err, r.n, resp)
           /\ created' = IF resp.status = 201
                         THEN created \cup {resp.doc._id} ELSE created
           /\ used' = used \cup {d._id : d \in r.S \ store}
           /\ netOK' = IF resp.status = 201 THEN netOK + 1 ELSE netOK
           /\ faulted' = (faulted \/ IsFault(r.err))
    /\ netReq' = netReq + 1
    /\ UNCHANGED <<proc, deletedOK>>

\* PUT /pets/:id and DELETE /pets/:id, up to the answer of findOne.
Lookup(p, op, id, body, f) ==
    /\ CanStart(p)
    /\ LET pet == findOne(store, JStr(id))
           resp == lookupResp(ReadErr(f), pet)
       IN  IF resp = GoOn
           THEN /\ proc' = [proc EXCEPT ![p] =
                               [pc |-> op, id |-> id, body |-> body]]
                /\ UNCHANGED <<last, netReq>>
           ELSE /\ last' = Event(op, "findOne", id, ReadErr(f),
                                 Cardinality(Matching(store, JStr(id))), resp)
                /\ netReq' = IF op = "delete" THEN netReq - 1 ELSE netReq
                /\ UNCHANGED proc
    /\ faulted' = (faulted \/ IsFault(ReadErr(f)))
    /\ UNCHANGED <<store, created, used, deletedOK, netOK>>

UpdateLookup(p, id, body, f) == Lookup(p, "update", id, body, f)

DeleteLookup(p, id, f) == Lookup(p, "delete", id, NoDoc, f)

\* PUT /pets/:id from the update call to the response.
UpdateApply(p, f) ==
    /\ proc[p].pc = "update"
    /\ LET v == JStr(proc[p].id)
           r == Outcome(f, store, update(store, v, proc[p].body))
       IN  /\ store' = r.S
           /\ last' = Event("update", "update", proc[p].id, r.err, r.n, putResp(r))
           /\ faulted' = (faulted \/ IsFault(r.err))
    /\ proc' = [proc EXCEPT ![p] = Idle]
    /\ UNCHANGED <<created, used, deletedOK, netReq, netOK>>

\* DELETE /pets/:id from the remove call to the response.
DeleteRemove(p, f) ==
    /\ proc[p].pc = "delete"
    /\ LET v == JStr(proc[p].id)
           r == Outcome(f, store, remove(store, v))
           resp == deleteResp(r)
       IN  /\ store' = r.S
           /\ last' = Event("delete", "remove", proc[p].id, r.err, r.n, resp)
           /\ deletedOK' = IF resp.status = 200
                           THEN deletedOK \cup {proc[p].id} ELSE deletedOK
           /\ netOK' = IF resp.status = 200 THEN netOK - 1 ELSE netOK
           /\ faulted' = (faulted \/ IsFault(r.err))
    /\ netReq' = netReq - 1
    /\ proc' = [proc EXCEPT ![p] = Idle]
    /\ UNCHANGED <<created, used>>

\* One step of handler p.
Handler(p) ==
    \/ \E f \in ReadFaults : List(p, f)
    \/ \E id \in PathIds, f \in ReadFaults : GetById(p, id, f)
    \/ \E body \in CreateBodies, f \in WriteFaults :
          \/ \E newId \in FreshIds : Create(p, body, newId, f)
          \/ body._id # Absent /\ Create(p, body, Absent, f)
    \/ \E id \in PathIds, body \in UpdateBodies, f \in ReadFaults :
          UpdateLookup(p, id, body, f)
    \/ \E id \in PathIds, f \in ReadFaults : DeleteLookup(p, id, f)
    \/ \E f \in WriteFaults : UpdateApply(p, f)
    \/ \E f \in WriteFaults : DeleteRemove(p, f)

\* Requests overlap: any handler may take the next step.
Next == \E p \in Procs : Handler(p)

Spec == Init /\ [][Next]_vars

\* One request at a time: a single handler, so each request ends before the
\* next begins.
SeqNext == Handler(1)

SeqSpec == Init /\ [][SeqNext]_vars

(* ----------------------------------------------------------------- claims *)

\* The step sends a response.
Responds == last'.seq = last.seq + 1

\* C1: every Create that responds 201 returns a record whose id is non-empty
\* and differs from the id of every record an earlier Create returned,
\* deleted records included.
C1_UniqueAcrossHistory ==
    [][(Responds /\ last'.op = "create" /\ last'.resp.status = 201)
          => /\ last'.resp.doc._id \notin {Absent, JStr("")}
             /\ last'.resp.doc._id \notin created]_vars

\* new is old with exactly the fields map names overwritten by map's values.
PatchedAs(old, map, new) ==
    \A f \in Fields : new[f] = IF map[f] # Absent THEN map[f] ELSE old[f]

\* The update call of handler p is applied to a record that exists, and the
\* store's datafile raises no fault.
UpdatesExisting(p) ==
    /\ proc[p].pc = "update"
    /\ proc'[p].pc = "idle"
    /\ Matching(store, JStr(proc[p].id)) # {}
    /\ ~IsFault(last'.fault)

\* The update of handler p responds 200 with the patched record and stores it.
UpdatePatches(p) ==
    LET old == findOne(store, JStr(proc[p].id))
    IN  /\ last'.resp.status = 200
        /\ last'.resp.kind = "json"
        /\ PatchedAs(old, proc[p].body, last'.resp.doc)
        /\ store' = (store \ {old}) \cup {last'.resp.doc}

\* C2: Update of an existing record with any partial field map, maps naming
\* _id and the empty map included, responds 200 and the stored and returned
\* record has the map's value for each named field and its previous value
\* for each other field.
C2_AnyMap ==
    [][\A p \in Procs : UpdatesExisting(p) => UpdatePatches(p)]_vars

\* C2 (amended): the same for every map that does not name _id or names the
\* record's own id; a map naming another _id is answered 500 and changes
\* nothing.
C2_MapKeepingId ==
    [][\A p \in Procs : UpdatesExisting(p) =>
          IF proc[p].body._id \in {Absent, JStr(proc[p].id)}
          THEN UpdatePatches(p)
          ELSE /\ last'.resp = sendError("idchange")
               /\ store' = store]_vars

\* An Update answered 200 whose record has name "y" and type "dog": no
\* Create body has both, so the update overwrote one field and kept the other.
C2_Witness ==
    /\ last.call = "update"
    /\ last.resp.status = 200
    /\ last.resp.doc.name = JStr("y")
    /\ last.resp.doc.type = JStr("dog")

\* C3: once a Delete on an id responded 200, a later Get-by-id on that id
\* responds 404, whatever requests came in between (stated for the Gets whose
\* lookup raises no fault).
C3_GoneAfterDelete ==
    (last.op = "get" /\ last.id \in deletedOK /\ last.fault = "none")
        => last.resp.status = 404

\* The response is to a Get-by-id, Update or Delete on an id that no Create
\* has returned.
OnNeverCreated ==
    /\ last.op \in {"get", "update", "delete"}
    /\ JStr(last.id) \notin created

\* C4: Get-by-id, Update and Delete on a never-created id are never answered
\* with ServerFault (500), store faults included.
C4_Never500 == OnNeverCreated => last.resp.status # 500

\* C4 (amended): while the store has raised no fault, Get-by-id, Update and
\* Delete on a never-created id respond 404.
C4_NotFoundWithoutFault ==
    (OnNeverCreated /\ ~faulted) => last.resp.status = 404

\* An Update on a never-created id answered 404 while another record exists.
C4_Witness ==
    /\ OnNeverCreated
    /\ last.op = "update"
    /\ last.resp.status = 404
    /\ store # {}
    /\ ~faulted

C6_RequestsMade ==
    (last.op = "list" /\ last.resp.status = 200 /\ ~faulted)
        => last.resp.count = netReq

\* C6 (amended): ... as many records as Creates responded 201 minus Deletes
\* responded 200, while the store has raised no fault.
C6_RequestsSucceeded ==
    (last.op = "list" /\ last.resp.status = 200 /\ ~faulted)
        => last.resp.count = netOK

\* A List of one record after two Creates and one Delete succeeded.
C6_Witness ==
    /\ last.op = "list"
    /\ last.resp.count = 1
    /\ Cardinality(created) = 2
    /\ deletedOK # {}
    /\ netOK = 1
    /\ ~faulted

\* C7: when a Create responds 201 with a record, the Get-by-id issued next on
\* that record's id responds 200 with an equal record (stated for the Gets
\* whose lookup raises no fault).
C7_GetAfterCreate ==
    [][(/\ last.op = "create"
        /\ last.resp.status = 201
        /\ Responds
        /\ last'.op = "get"
        /\ last'.id = ToPath(last.resp.doc._id)
        /\ last'.fault = "none")
          => (last'.resp.status = 200 /\ last'.resp.doc = last.resp.doc)]_vars

\* C8: when the store raises a fault during the insert of a Create, the
\* update of an Update or the remove of a Delete, the response is 500 with
\* the fault's message as its body.
C8_FaultIs500 ==
    (last.call \in {"insert", "update", "remove"} /\ last.fault # "none")
        => /\ last.resp.status = 500
           /\ last.resp.kind = "text"
           /\ last.resp.text = FaultMessage(last.fault)
           /\ last.resp.text # ""

\* A Delete whose remove call faulted after the record left the collection.
C8_Witness ==
    /\ last.call = "remove"
    /\ last.fault = "post"
    /\ last.resp.status = 500

\* C9: lookup and mutation are not atomic: an Update or Delete whose record
\* was removed between its lookup and its update / remove call still
\* responds 200, although the call matched no record.
C9_StaleMutationIs200 ==
    (last.call \in {"update", "remove"} /\ last.fault = "none" /\ last.n = 0)
        => last.resp.status = 200

\* Two Deletes of the one record ever created both responded 200: one Create
\* succeeded, two Deletes did, and the second removed nothing.
C9_Witness ==
    /\ last.call = "remove"
    /\ last.n = 0
    /\ last.resp.status = 200
    /\ created = {JStr(last.id)}
    /\ netOK = -1
    /\ ~faulted

\* The step answers a Create with 201, an Update with 200 or a Delete with 200.
Succeeds ==
    /\ Responds
    /\ \/ last'.op = "create" /\ last'.resp.status = 201
       \/ last'.op \in {"update", "delete"} /\ last'.resp.status = 200

\* C10: the collection changes only in a Create that responds 201, an Update
\* that responds 200 or a Delete that responds 200; a List, a Get-by-id and
\* an Update or Delete that responds 404 leave it as it was.
C10_OnlySuccessChanges ==
    [][/\ store' # store => Succeeds
       /\ (Responds /\ (last'.op \in {"list", "get"} \/ last'.resp.status = 404))
             => store' = store]_vars

====
